---- MODULE Spec2Model ----
(***************************************************************************)
(* Model of src/stock-analyzer.py: the Streamlit script that fetches a     *)
(* price history, enriches it with technical indicators                    *)
(* (calculate_technical_indicators) and displays it.                       *)
(*                                                                         *)
(* Numbers.  A pandas cell holds a float64.  A cell is modelled as a       *)
(* tagged record: a finite number (kept in fixed point, as an integer      *)
(* count of 1/Scale units, every division rounded to the nearest unit as   *)
(* IEEE arithmetic rounds to the nearest float), NaN, or a signed          *)
(* infinity.  Positions are 1-based here (Sequences); the 0-based          *)
(* position p of the source is element p + 1.                              *)
(***************************************************************************)
EXTENDS Integers, Sequences, FiniteSets, TLC

-----------------------------------------------------------------------------
(* Bounds of the model *)

\* Longest price history the provider returns.
MaxLen == 52

-----------------------------------------------------------------------------
(* Program constants *)

SMA_SHORT == 20
SMA_LONG == 50
RSI_SPAN == 14
EMA_FAST == 12
EMA_SLOW == 26
SIGNAL_SPAN == 9
BB_WINDOW == 20
VOL_WINDOW == 20

-----------------------------------------------------------------------------
(* float64 cells *)

\* Resolution of the fixed-point cells: Scale units make 1.0 (prices to the cent).
Scale == 10 * 10

NaN == [k |-> "nan", v |-> 0]
PInf == [k |-> "inf", v |-> 1]
NInf == [k |-> "inf", v |-> -1]
Num(x) == [k |-> "num", v |-> x]

IsNaN(a) == a.k = "nan"
IsNum(a) == a.k = "num"
IsInf(a) == a.k = "inf"

Abs(x) == IF x < 0 THEN -x ELSE x
Sign(x) == IF x < 0 THEN -1 ELSE IF x > 0 THEN 1 ELSE 0

\* a / b for integers, b > 0, rounded to the nearest integer.
RoundDiv(a, b) == Sign(a) * ((2 * Abs(a) + b) \div (2 * b))

FNeg(a) == IF IsNaN(a) THEN NaN ELSE [k |-> a.k, v |-> -a.v]

FAdd(a, b) ==
    IF IsNaN(a) \/ IsNaN(b) THEN NaN
    ELSE IF IsInf(a) /\ IsInf(b) THEN (IF a.v = b.v THEN a ELSE NaN)
    ELSE IF IsInf(a) THEN a
    ELSE IF IsInf(b) THEN b
    ELSE Num(a.v + b.v)

FSub(a, b) == FAdd(a, FNeg(b))

\* a / b as numpy divides float64: x/0 is a signed infinity, 0/0 is NaN.
FDiv(a, b) ==
    IF IsNaN(a) \/ IsNaN(b) THEN NaN
    ELSE IF IsInf(a) /\ IsInf(b) THEN NaN
    ELSE IF IsInf(a) THEN (IF b.v < 0 THEN FNeg(a) ELSE a)
    ELSE IF IsInf(b) THEN Num(0)
    ELSE IF b.v = 0 THEN (IF a.v = 0 THEN NaN ELSE IF a.v > 0 THEN PInf ELSE NInf)
    ELSE Num(Sign(b.v) * RoundDiv(a.v * Scale, Abs(b.v)))

FAbs(a) == IF IsNaN(a) THEN NaN ELSE [k |-> a.k, v |-> Abs(a.v)]

\* a scalar multiple c * a, c an integer
FScale(c, a) == IF IsNum(a) THEN Num(c * a.v) ELSE IF IsNaN(a) \/ c = 0 THEN NaN
                ELSE [k |-> "inf", v |-> Sign(c) * a.v]

\* comparisons with NaN are False, as in IEEE arithmetic
FLess(a, b) ==
    IF IsNaN(a) \/ IsNaN(b) THEN FALSE
    ELSE IF IsInf(a) THEN a.v < 0 /\ ~(IsInf(b) /\ b.v < 0)
    ELSE IF IsInf(b) THEN b.v > 0
    ELSE a.v < b.v

\* largest r with r * r <= x, for x >= 0
RECURSIVE ISqrtIn(_, _, _)
ISqrtIn(x, lo, hi) ==
    IF lo >= hi THEN lo
    ELSE LET mid == (lo + hi + 1) \div 2
         IN IF mid * mid <= x THEN ISqrtIn(x, mid, hi) ELSE ISqrtIn(x, lo, mid - 1)

ISqrt(x) == ISqrtIn(x, 0, 46340)

-----------------------------------------------------------------------------
(* pandas Series operations used by the script *)

Max(a, b) == IF a > b THEN a ELSE b

\* the window of k cells ending at position i (1-based), i >= k
WindowIdx(i, k) == (i - k + 1) .. i

RECURSIVE SumCells(_, _, _)
SumCells(s, lo, hi) == IF lo > hi THEN 0 ELSE s[lo].v + SumCells(s, lo + 1, hi)

WindowFull(s, i, k) == i >= k /\ \A j \in WindowIdx(i, k) : IsNum(s[j])

\* rolling(window=k, center=True): the window is centred on the position
RollingMean_Centered(s, k) ==
    [i \in 1 .. Len(s) |->
        LET e == i + (k - 1) \div 2
        IN IF e <= Len(s) /\ WindowFull(s, e, k)
           THEN Num(RoundDiv(SumCells(s, e - k + 1, e), k)) ELSE NaN]

\* rolling(window=k, min_periods=1): the mean of whatever the window holds
RollingMean_MinPeriods1(s, k) ==
    [i \in 1 .. Len(s) |->
        LET lo == Max(1, i - k + 1)
        IN IF \A j \in lo .. i : IsNum(s[j])
           THEN Num(RoundDiv(SumCells(s, lo, i), i - lo + 1)) ELSE NaN]

\* rolling(window=k, closed='left'): the window ends one position early
RollingMean_ClosedLeft(s, k) ==
    [i \in 1 .. Len(s) |->
        IF WindowFull(s, i - 1, k) THEN Num(RoundDiv(SumCells(s, i - k, i - 1), k)) ELSE NaN]

\* Series.rolling(window=k).mean(): min_periods defaults to the window, so the
\* cell is NaN until k non-NaN observations stand in the window.
RollingMean(s, k) ==
    [i \in 1 .. Len(s) |->
        IF WindowFull(s, i, k) THEN Num(RoundDiv(SumCells(s, i - k + 1, i), k)) ELSE NaN]

RECURSIVE SumSqDev(_, _, _, _)
SumSqDev(s, m, lo, hi) ==
    IF lo > hi THEN 0 ELSE (s[lo].v - m) * (s[lo].v - m) + SumSqDev(s, m, lo + 1, hi)

\* Series.rolling(window=k).std(): sample standard deviation (ddof = 1).
RollingStd(s, k) ==
    [i \in 1 .. Len(s) |->
        IF WindowFull(s, i, k) /\ k > 1
        THEN LET m == RoundDiv(SumCells(s, i - k + 1, i), k)
             IN Num(ISqrt(RoundDiv(SumSqDev(s, m, i - k + 1, i), k - 1)))
        ELSE NaN]

\* Series.diff(1)
Diff(s) == [i \in 1 .. Len(s) |-> IF i = 1 THEN NaN ELSE FSub(s[i], s[i - 1])]

\* gain[gain < 0] = 0 : NaN < 0 is False, so a NaN cell stays.
ClipBelowZero(s) == [i \in 1 .. Len(s) |-> IF FLess(s[i], Num(0)) THEN Num(0) ELSE s[i]]
\* loss[loss > 0] = 0
ClipAboveZero(s) == [i \in 1 .. Len(s) |-> IF FLess(Num(0), s[i]) THEN Num(0) ELSE s[i]]

\* the step with Wilder's smoothing factor, alpha = 1/span
EwmStep_Wilder(st, cur, span) ==
    IF IsNaN(st.w) THEN [w |-> cur, num |-> 1, den |-> 1]
    ELSE IF IsNaN(cur) THEN st
    ELSE [w |-> Num(RoundDiv((span - 1) * st.w.v + cur.v, span)), num |-> 1, den |-> 1]

\* One step of pandas' ewm kernel (adjust=False, ignore_na=False, min_periods=0).
\* st = [w: the running mean, num/den: old_wt as a fraction]; alpha = 2/(span+1).
EwmStep(st, cur, span) ==
    IF IsNaN(st.w)
    THEN [w |-> cur, num |-> 1, den |-> 1]
    ELSE LET num == st.num * (span - 1)
             den == st.den * (span + 1)
         IN IF IsNaN(cur)
            THEN [w |-> st.w, num |-> num, den |-> den]
            ELSE [w |-> Num(RoundDiv(num * (span + 1) * st.w.v + 2 * den * cur.v,
                                     num * (span + 1) + 2 * den)),
                  num |-> 1, den |-> 1]

RECURSIVE EwmFill(_, _, _, _)
EwmFill(s, span, st, out) ==
    IF Len(out) = Len(s) THEN out
    ELSE LET nx == IF Len(out) = 0 THEN [w |-> s[1], num |-> 1, den |-> 1]
                   ELSE EwmStep(st, s[Len(out) + 1], span)
         IN EwmFill(s, span, nx, Append(out, nx.w))

\* Series.ewm(span=span, adjust=False).mean()
Ewm(s, span) == EwmFill(s, span, [w |-> NaN, num |-> 1, den |-> 1], <<>>)

ColAdd(a, b) == [i \in 1 .. Len(a) |-> FAdd(a[i], b[i])]
ColSub(a, b) == [i \in 1 .. Len(a) |-> FSub(a[i], b[i])]
ColDiv(a, b) == [i \in 1 .. Len(a) |-> FDiv(a[i], b[i])]
ColAbs(a) == [i \in 1 .. Len(a) |-> FAbs(a[i])]
ColTimes(c, a) == [i \in 1 .. Len(a) |-> FScale(c, a[i])]

-----------------------------------------------------------------------------
(* pandas DataFrame: an index and named columns of equal length *)

None == [kind |-> "None"]
DataFrame(index, cols) == [kind |-> "DataFrame", index |-> index, cols |-> cols]

IsNone(df) == df.kind = "None"
Rows(df) == Len(df.index)
\* DataFrame.empty
Empty(df) == Rows(df) = 0
Columns(df) == DOMAIN df.cols
Col(df, name) == df.cols[name]

\* data[name] = column
SetCol(df, name, column) == [df EXCEPT !.cols = (name :> column) @@ @]

\* positions of the rows in which no column holds NaN, in order
RECURSIVE KeptFrom(_, _)
KeptFrom(df, i) ==
    IF i > Rows(df) THEN <<>>
    ELSE IF \A c \in Columns(df) : ~IsNaN(df.cols[c][i])
         THEN <<i>> \o KeptFrom(df, i + 1)
         ELSE KeptFrom(df, i + 1)

Kept(df) == KeptFrom(df, 1)

Take(s, pos) == [j \in 1 .. Len(pos) |-> s[pos[j]]]

\* dropna() without inplace=True, its result discarded
DropNa_NotInPlace(df) == df

\* DataFrame.dropna(): drop every row that holds a NaN in any column
DropNa(df) ==
    LET pos == Kept(df)
    IN DataFrame(Take(df.index, pos), [c \in Columns(df) |-> Take(df.cols[c], pos)])

-----------------------------------------------------------------------------
(* calculate_technical_indicators, statement by statement *)

Hundred == Num(100 * Scale)
One == Num(Scale)

Gain(close) == ClipBelowZero(Diff(close))
Loss(close) == ClipAboveZero(Diff(close))
AvgGain(close) == Ewm(Gain(close), RSI_SPAN)
\* the smoothed loss left negative
AvgLoss_Signed(close) == Ewm(Loss(close), RSI_SPAN)
AvgLoss(close) == ColAbs(Ewm(Loss(close), RSI_SPAN))
RS(close) == ColDiv(AvgGain(close), AvgLoss(close))
RSI(close) ==
    LET rs == RS(close)
    IN [i \in 1 .. Len(close) |-> FSub(Hundred, FDiv(Hundred, FAdd(One, rs[i])))]

WithSMA(df) ==
    SetCol(SetCol(df, "SMA_20", RollingMean(Col(df, "Close"), SMA_SHORT)),
           "SMA_50", RollingMean(Col(df, "Close"), SMA_LONG))

WithRSI(df) == SetCol(df, "RSI", RSI(Col(df, "Close")))

WithMACD(df) ==
    LET d1 == SetCol(df, "EMA_12", Ewm(Col(df, "Close"), EMA_FAST))
        d2 == SetCol(d1, "EMA_26", Ewm(Col(d1, "Close"), EMA_SLOW))
        d3 == SetCol(d2, "MACD", ColSub(Col(d2, "EMA_12"), Col(d2, "EMA_26")))
    IN SetCol(d3, "Signal_Line", Ewm(Col(d3, "MACD"), SIGNAL_SPAN))

WithBollinger(df) ==
    LET d1 == SetCol(df, "Middle_Band", RollingMean(Col(df, "Close"), BB_WINDOW))
        d2 == SetCol(d1, "Upper_Band",
                     ColAdd(Col(d1, "Middle_Band"),
                            ColTimes(2, RollingStd(Col(d1, "Close"), BB_WINDOW))))
    IN SetCol(d2, "Lower_Band",
              ColSub(Col(d2, "Middle_Band"),
                     ColTimes(2, RollingStd(Col(d2, "Close"), BB_WINDOW))))

WithVolumeSMA(df) ==
    SetCol(df, "Volume_SMA_20", RollingMean(Col(df, "Volume"), VOL_WINDOW))

\* the frame as it stands after line 58, before dropna
Enrich(df) == WithVolumeSMA(WithBollinger(WithMACD(WithRSI(WithSMA(df)))))

\* the early return of line 24
Skips(df) == IsNone(df) \/ Empty(df)

\* The frame object after the call.  Every statement assigns into `data` itself
\* and dropna is inplace, so this is at once the caller's object and the value
\* returned.
calculate_technical_indicators(df) == IF Skips(df) THEN df ELSE DropNa(Enrich(df))

-----------------------------------------------------------------------------
(* The price histories the provider can return (ticker.history) *)

Shapes == {"flat", "up", "down", "zigzag"}
Anomalies == {"none", "negClose", "nanClose", "negVolume", "nanVolume", "dupTime"}

\* lengths of the flat run that opens a history
FlatRuns == {0, 3, SMA_LONG}

\* the close of bar i (1-based), in whole currency units: flat for the first
\* `flat` bars, then moving as the shape says
ClosePrice(shape, flat, i) ==
    LET t == Max(0, i - flat)
    IN CASE shape = "flat" -> 10
         [] shape = "up" -> t + (IF flat = 0 THEN 0 ELSE 1)
         [] shape = "down" -> MaxLen + 2 - t
         [] shape = "zigzag" -> 10 + (t % 2)

VolumeCount(i) == 1000 + 100 * (i % 3)

Inputs ==
    { in \in [n : 0 .. MaxLen, shape : Shapes, flat : FlatRuns, anomaly : Anomalies,
              at : 1 .. MaxLen] :
        /\ (in.shape = "flat" => in.flat = 0)
        /\ IF in.anomaly = "none" THEN in.at = 1
           ELSE /\ in.shape = "up" /\ in.flat = 0
                /\ in.at \in {1, 2, in.n}
                /\ (in.anomaly = "dupTime" => in.at > 1) }

\* the frame ticker.history returns for an input
History(in) ==
    LET idx == 1 .. in.n
        hit(i, kind) == in.anomaly = kind /\ in.at = i
        close == [i \in idx |->
                    IF hit(i, "nanClose") THEN NaN
                    ELSE IF hit(i, "negClose") THEN Num(-Scale)
                    ELSE Num(Scale * ClosePrice(in.shape, in.flat, i))]
        volume == [i \in idx |->
                    IF hit(i, "nanVolume") THEN NaN
                    ELSE IF hit(i, "negVolume") THEN Num(-Scale)
                    ELSE Num(Scale * VolumeCount(i))]
        open == [i \in idx |-> Num(Scale * ClosePrice(in.shape, in.flat, i))]
        high == [i \in idx |-> Num(Scale * (ClosePrice(in.shape, in.flat, i) + 1))]
        low == [i \in idx |-> IF hit(i, "negClose") THEN Num(-Scale)
                              ELSE Num(Scale * (ClosePrice(in.shape, in.flat, i) - 1))]
    IN DataFrame([i \in idx |-> IF hit(i, "dupTime") THEN i - 1 ELSE i],
                 [c \in {"Open", "High", "Low", "Close", "Volume"} |->
                    CASE c = "Open" -> open [] c = "High" -> high [] c = "Low" -> low
                      [] c = "Close" -> close [] c = "Volume" -> volume])

-----------------------------------------------------------------------------
(* The script.  One symbol of stock_symbols is followed: each symbol has    *)
(* its own frame and the frames share nothing.                             *)

VARIABLES
    pc,          \* where the script stands
    data,        \* the DataFrame object held in historical_data_dict[symbol], or None
    fetched,     \* history: the frame as fetch_historical_data returned it
    enriched,    \* history: `data` as it stood after line 58, before dropna
    returned,    \* what calculate_technical_indicators handed back: "none" (not called),
                 \* "data" (the object it was given), "raised"
    notice       \* what fetch_historical_data reported: "none", "warning", "error"

vars == <<pc, data, fetched, enriched, returned, notice>>

Init ==
    /\ pc = "start"
    /\ data = None
    /\ fetched = None
    /\ enriched = None
    /\ returned = "none"
    /\ notice = "none"

\* fetch_historical_data returns None for an empty history, the frame otherwise
fetch_historical_data(in) == IF Empty(History(in)) THEN None ELSE History(in)

\* lines 233-237: a history came back and is stored in historical_data_dict
Fetch ==
    /\ pc = "start"
    /\ \E in \in Inputs :
        /\ ~IsNone(fetch_historical_data(in))
        /\ data' = fetch_historical_data(in)
        /\ fetched' = fetch_historical_data(in)
    /\ pc' = "fetched"
    /\ UNCHANGED <<enriched, returned, notice>>

\* lines 13-15, 236: nothing came back; the symbol gets no entry
FetchNothing ==
    /\ pc = "start"
    /\ \E in \in Inputs : IsNone(fetch_historical_data(in))
    /\ notice' = "warning"
    /\ pc' = "nodata"
    /\ UNCHANGED <<data, fetched, enriched, returned>>

\* lines 18-20: the provider raised; st.error, None, no entry
FetchFails ==
    /\ pc = "start"
    /\ notice' = "error"
    /\ pc' = "nodata"
    /\ UNCHANGED <<data, fetched, enriched, returned>>

\* lines 240-242: historical_data_dict[symbol] = calculate_technical_indicators(data)
Calculate ==
    /\ pc = "fetched"
    /\ enriched' = IF Skips(data) THEN data ELSE Enrich(data)
    /\ data' = calculate_technical_indicators(data)
    /\ returned' = "data"
    /\ pc' = "calculated"
    /\ UNCHANGED <<fetched, notice>>

\* lines 245-259: tables and charts are drawn from the stored frame
Display ==
    /\ pc = "calculated"
    /\ pc' = "displayed"
    /\ UNCHANGED <<data, fetched, enriched, returned, notice>>

\* line 260: nothing to show
DisplayNothing ==
    /\ pc = "nodata"
    /\ pc' = "displayed"
    /\ UNCHANGED <<data, fetched, enriched, returned, notice>>

\* Streamlit runs the script again from the top on the next interaction
Rerun ==
    /\ pc = "displayed"
    /\ pc' = "start"
    /\ data' = None
    /\ fetched' = None
    /\ enriched' = None
    /\ returned' = "none"
    /\ notice' = "none"

Next == Fetch \/ FetchNothing \/ FetchFails \/ Calculate \/ Display \/ DisplayNothing \/ Rerun

Spec == Init /\ [][Next]_vars

-----------------------------------------------------------------------------
(* Vocabulary of the properties *)

BarColumns == {"Open", "High", "Low", "Close", "Volume"}
IndicatorColumns ==
    {"SMA_20", "SMA_50", "RSI", "EMA_12", "EMA_26", "MACD", "Signal_Line",
     "Middle_Band", "Upper_Band", "Lower_Band", "Volume_SMA_20"}

\* calculate_technical_indicators has run on the fetched frame
Called == returned # "none"

NonNegFinite(s) == \A i \in 1 .. Len(s) : IsNum(s[i]) /\ s[i].v >= 0
StrictlyIncreasing(idx) == \A i \in 1 .. Len(idx) - 1 : idx[i] < idx[i + 1]

\* a well-formed Bar sequence: finite non-negative values, increasing timestamps
Valid(df) ==
    /\ ~IsNone(df)
    /\ \A c \in BarColumns : NonNegFinite(Col(df, c))
    /\ StrictlyIncreasing(df.index)

\* row i of a frame holds no undefined value
Dense(df, i) == \A c \in Columns(df) : ~IsNaN(df.cols[c][i])

\* the rows lo .. of a frame's index
Suffix(s, lo) == SubSeq(s, lo, Len(s))

-----------------------------------------------------------------------------
(* C2 *)

-----------------------------------------------------------------------------
(* C3 *)

\* C3: for a valid input the rows kept by the trim are a contiguous suffix of
\* the input: some number of leading rows is dropped and every later row is
\* kept, timestamp and Bar values as they were.
C3_TrimIsSuffix ==
    (Called /\ Valid(fetched)) =>
        \E lo \in 1 .. Rows(fetched) + 1 :
            /\ data.index = Suffix(fetched.index, lo)
            /\ \A c \in BarColumns : data.cols[c] = Suffix(fetched.cols[c], lo)

\* a valid input of which the trim dropped a proper, non-empty prefix
C3_Witness ==
    /\ Called
    /\ Valid(fetched)
    /\ Rows(data) >= 2
    /\ Rows(data) < Rows(fetched)

-----------------------------------------------------------------------------
(* C4 *)

\* C4 as stated: for a valid input of n >= 50 bars the output is exactly the
\* input rows at positions 49 .. n-1, and from position 49 on no column is
\* undefined.
C4_Sma50DominatesTrim ==
    (Called /\ Valid(fetched) /\ Rows(fetched) >= SMA_LONG) =>
        /\ data.index = Suffix(fetched.index, SMA_LONG)
        /\ \A i \in SMA_LONG .. Rows(fetched) : Dense(enriched, i)

-----------------------------------------------------------------------------
(* C5 *)

\* C5 as stated: at every position i >= 1 where the smoothed average loss is 0
\* the RSI is 100, never NaN nor infinite.
C5_ZeroLossGivesHundred ==
    (Called /\ Valid(fetched)) =>
        LET avg_loss == AvgLoss(Col(fetched, "Close"))
        IN \A i \in 2 .. Rows(fetched) :
            avg_loss[i] = Num(0) => Col(enriched, "RSI")[i] = Hundred

-----------------------------------------------------------------------------
(* C6 *)

Windowed ==
    {<<"SMA_20", SMA_SHORT>>, <<"SMA_50", SMA_LONG>>, <<"Middle_Band", BB_WINDOW>>,
     <<"Upper_Band", BB_WINDOW>>, <<"Lower_Band", BB_WINDOW>>,
     <<"Volume_SMA_20", VOL_WINDOW>>}

\* C6: for a non-empty input of fewer than 50 bars the call returns normally,
\* every windowed column whose window is longer than the input is undefined at
\* every position, and the returned frame has no rows.
C6_ShortInputGivesEmpty ==
    (Called /\ Rows(fetched) < SMA_LONG) =>
        /\ returned = "data"
        /\ \A w \in Windowed :
            w[2] > Rows(fetched) =>
                \A i \in 1 .. Rows(fetched) : IsNaN(Col(enriched, w[1])[i])
        /\ Rows(data) = 0
        /\ Columns(data) = BarColumns \cup IndicatorColumns

\* the 5-bar scenario: SMA_20 undefined throughout, nothing returned
C6_Witness ==
    /\ Called
    /\ Rows(fetched) = 5
    /\ \A i \in 1 .. 5 : IsNaN(Col(enriched, "SMA_20")[i])
    /\ Rows(data) = 0

-----------------------------------------------------------------------------
(* C7 *)

\* C7 as stated: on a malformed Bar sequence the call ends with an error and
\* returns no frame.
C7_InvalidInputRaises == (Called /\ ~Valid(fetched)) => returned = "raised"

-----------------------------------------------------------------------------
(* C8 *)

\* C8: for a valid input, wherever the RSI is defined it is a finite number
\* between 0 and 100.
C8_RsiInRange ==
    (Called /\ Valid(fetched)) =>
        \A i \in 1 .. Rows(fetched) :
            LET r == Col(enriched, "RSI")[i]
            IN ~IsNaN(r) => (IsNum(r) /\ 0 <= r.v /\ r.v <= Hundred.v)

\* RSI strictly inside the range at one position and 100 at another
C8_Witness ==
    /\ Called
    /\ Valid(fetched)
    /\ \E i \in 1 .. Rows(fetched) :
        LET r == Col(enriched, "RSI")[i] IN IsNum(r) /\ 0 < r.v /\ r.v < Hundred.v
    /\ \E i \in 1 .. Rows(fetched) : Col(enriched, "RSI")[i] = Hundred

-----------------------------------------------------------------------------
(* C9 *)

Averaged ==
    {<<"SMA_20", "Close", SMA_SHORT>>, <<"SMA_50", "Close", SMA_LONG>>,
     <<"Volume_SMA_20", "Volume", VOL_WINDOW>>}

\* C9: before trimming, each simple moving average has the length of the
\* input, is undefined exactly at the positions i < k-1, and at every later
\* position is the arithmetic mean of the k values ending there.
C9_SmaIsWindowMean ==
    (Called /\ Valid(fetched)) =>
        \A a \in Averaged :
            LET sma == Col(enriched, a[1])
                src == Col(fetched, a[2])
                k == a[3]
            IN /\ Len(sma) = Rows(fetched)
               /\ \A i \in 1 .. Len(sma) :
                    IF i < k THEN IsNaN(sma[i])
                    ELSE IsNum(sma[i]) /\ k * sma[i].v = SumCells(src, i - k + 1, i)

\* an input long enough for SMA_50 to be defined at its last position
C9_Witness ==
    /\ Called
    /\ Valid(fetched)
    /\ Rows(fetched) > SMA_LONG
    /\ IsNum(Col(enriched, "SMA_50")[Rows(fetched)])
    /\ Col(enriched, "SMA_50")[Rows(fetched)] # Col(enriched, "SMA_20")[Rows(fetched)]

-----------------------------------------------------------------------------
(* C10 *)

\* the recurrence of the claim: E[0] = x[0], E[i] = a x[i] + (1 - a) E[i-1]
\* with a = 2 / (span + 1)
FollowsRecurrence(e, x, span) ==
    /\ Len(e) = Len(x)
    /\ \A i \in 1 .. Len(x) :
        /\ IsNum(e[i])
        /\ IF i = 1 THEN e[i] = x[i]
           ELSE e[i].v = RoundDiv(2 * x[i].v + (span - 1) * e[i - 1].v, span + 1)

\* C10: before trimming, EMA_12 and EMA_26 follow the recurrence over Close
\* from position 0, MACD is their difference at every position, Signal_Line
\* follows the recurrence with span 9 over MACD, and none of the four columns
\* has an undefined entry.
C10_EmaMacdRecurrence ==
    (Called /\ Valid(fetched)) =>
        /\ FollowsRecurrence(Col(enriched, "EMA_12"), Col(fetched, "Close"), EMA_FAST)
        /\ FollowsRecurrence(Col(enriched, "EMA_26"), Col(fetched, "Close"), EMA_SLOW)
        /\ \A i \in 1 .. Rows(fetched) :
            /\ IsNum(Col(enriched, "MACD")[i])
            /\ Col(enriched, "MACD")[i].v =
                 Col(enriched, "EMA_12")[i].v - Col(enriched, "EMA_26")[i].v
        /\ FollowsRecurrence(Col(enriched, "Signal_Line"), Col(enriched, "MACD"),
                             SIGNAL_SPAN)

\* a valid input on which MACD and its signal line have moved apart
C10_Witness ==
    /\ Called
    /\ Valid(fetched)
    /\ Rows(fetched) >= 3
    /\ Col(enriched, "MACD")[Rows(fetched)].v > 0
    /\ Col(enriched, "Signal_Line")[Rows(fetched)] # Col(enriched, "MACD")[Rows(fetched)]

====
